---- MODULE Spec2Model ----
(***************************************************************************)
(* Model of the surf-report services of this repository: index.ts,        *)
(* src/server.ts and test-port.ts.  One request is processed at a time;   *)
(* every await of a handler (the generator call, the conditions fetch,    *)
(* the save call) is a suspension point, so a handler is a sequence of    *)
(* steps, one action per step.  JavaScript values are records tagged by   *)
(* their type, so that a missing field, a property access on undefined    *)
(* and a method call on a non-string behave as they do at run time.       *)
(* Wave and tide heights are in tenths of a foot, everything else in the  *)
(* unit of the source.                                                     *)
(***************************************************************************)
EXTENDS Integers, Sequences, FiniteSets, TLC

(***************************************************************************)
(* Bounds of the model.                                                    *)
(***************************************************************************)
\* Largest wave height drawn, in tenths of a foot.
MaxWaveHeight == 45
\* Longest report text the generator returns.
MaxReportLen == 151
\* Latest reading of the clock, in milliseconds.
MaxClock == 1

(***************************************************************************)
(* Program constants.                                                      *)
(***************************************************************************)
\* test-port.ts: aiResponse.report.length < 150
MinReportLength == 150
\* index.ts: wave_height_ft >= 4 (tenths)
SolidWaveMin == 40
\* index.ts: wave_height_ft >= 2.5 (tenths)
FunboardWaveMin == 25
\* index.ts, second createEnhancedFallbackReport: wave_height_ft >= 3 (tenths)
PunchWaveMin == 30
\* index.ts: wave_height_ft >= 2 (tenths)
FunSizedWaveMin == 20
\* index.ts: water_temperature_f < 65
WetsuitBelow == 65
\* index.ts: score >= 70
GoodScoreMin == 70
\* index.ts: score >= 50
FairScoreMin == 50
\* index.ts: score >= 65
IntermediateScoreMin == 65
\* index.ts: wave_period_sec >= 10
PowerPeriodMin == 10
\* index.ts: windMph < 10
GlassyWindBelow == 10
\* index.ts: 4 * 60 * 60 * 1000
CacheWindowMs == 14400000

(***************************************************************************)
(* JavaScript values.                                                      *)
(***************************************************************************)
Undef == [t |-> "undefined"]
NaN == [t |-> "NaN"]
Num(n) == [t |-> "number", n |-> n]
Str(s) == [t |-> "string", s |-> s]
\* A text returned by generator call k: its content is opaque, its length n.
GenText(k, n) == [t |-> "string", gen |-> k, len |-> n]
\* A text built from a template: the sequence of its pieces.
Template(toks) == [t |-> "string", tokens |-> toks]
\* An array of strings.
List(xs) == [t |-> "array", items |-> xs]

IsObject(v) == v.t = "object"
IsString(v) == v.t = "string"
IsNumber(v) == v.t = "number"

RECURSIVE SumLen(_)
SumLen(toks) == IF toks = <<>> THEN 0 ELSE Len(Head(toks)) + SumLen(Tail(toks))

\* v.length of a string value.
JsLength(v) ==
    IF "len" \in DOMAIN v THEN v.len
    ELSE IF "tokens" \in DOMAIN v THEN SumLen(v.tokens)
    ELSE Len(v.s)

\* !v is false: undefined, NaN, 0 and "" are falsy, everything else truthy.
Truthy(v) ==
    CASE v.t = "undefined" -> FALSE
      [] v.t = "NaN" -> FALSE
      [] v.t = "number" -> v.n # 0
      [] v.t = "string" -> JsLength(v) > 0
      [] OTHER -> TRUE

\* a >= n and a < n for a JavaScript value a and a number n: a comparison
\* with undefined or NaN is false.
JsGE(a, n) == IsNumber(a) /\ a.n >= n
JsLT(a, n) == IsNumber(a) /\ a.n < n

\* A number of tenths as JavaScript prints the number: 30 is "3", 25 "2.5".
FormatTenths(n) ==
    IF n % 10 = 0 THEN ToString(n \div 10)
    ELSE ToString(n \div 10) \o "." \o ToString(n % 10)

\* `${v}` for a value v in the unit 1/scale.
Interpolate(v, scale) ==
    CASE v.t = "undefined" -> "undefined"
      [] v.t = "NaN" -> "NaN"
      [] v.t = "number" -> IF scale = 10 THEN FormatTenths(v.n) ELSE ToString(v.n)
      [] OTHER -> v.s

\* Math.round(kts * 1.15078)
KnotsToMph(kts) ==
    IF IsNumber(kts) THEN Num((kts.n * 115078 + 50000) \div 100000) ELSE NaN

\* String.prototype.toLowerCase on the tide labels.
ToLowerCase(s) ==
    CASE s = "Rising" -> "rising"
      [] s = "Falling" -> "falling"
      [] s = "High" -> "high"
      [] s = "Low" -> "low"
      [] OTHER -> s

(***************************************************************************)
(* The conditions record (surfData) and the inputs drawn for it.           *)
(***************************************************************************)
Details(h, p, kts, tide, compass) ==
    [t |-> "object",
     wave_height_ft |-> h,
     wave_period_sec |-> p,
     swell_direction_deg |-> Num(90),
     wind_speed_kts |-> kts,
     wind_direction_deg |-> Num(270),
     tide_state |-> tide,
     tide_height_ft |-> Num(12),
     swell_direction_compass |-> compass,
     wind_direction_compass |-> compass]

Weather(water) ==
    [t |-> "object",
     air_temperature_f |-> Num(78),
     water_temperature_f |-> water,
     weather_description |-> Str("Partly cloudy")]

SurfData(details, weather, score) ==
    [t |-> "object",
     location |-> Str("St. Augustine, FL"),
     details |-> details,
     weather |-> weather,
     score |-> score]

\* Heights on both sides of every threshold of the source (2, 2.5, 3 and 4 ft).
WaveHeights == {h \in 0..MaxWaveHeight : h % 5 \in {0, 4}}
TideLabels == {"Rising", "Falling", "High", "Low", "Mid"}

BaseDetails == Details(Num(35), Num(9), Num(8), Str("Rising"), Str("NE"))
BaseWeather == Weather(Num(74))

\* Conditions with every field inside its declared range.
ValidSurfData ==
    {SurfData(Details(Num(h), Num(9), Num(8), Str("Rising"), Str("NE")),
              BaseWeather, Num(72)) : h \in WaveHeights}
    \cup {SurfData(Details(Num(35), Num(p), Num(k), Str("Rising"), c),
                   BaseWeather, Num(72)) :
             p \in {0, 10}, k \in {0, 9}, c \in {Undef, Str("NE")}}
    \cup {SurfData(Details(Num(35), Num(9), Num(8), Str(tide), Str("NE")),
                   Weather(Num(w)), Num(72)) :
             tide \in TideLabels, w \in {64, 65}}
    \cup {SurfData(BaseDetails, BaseWeather, Num(s)) :
             s \in {0, 49, 50, 64, 65, 69, 70, 100}}

\* Conditions that are not a SurfConditions record: the details or the
\* weather object is missing, a numeric field is absent or not finite,
\* tide_state is not a string.
MalformedSurfData ==
    {SurfData(Undef, BaseWeather, Num(72)),
     SurfData(BaseDetails, Undef, Num(72)),
     SurfData(Details(Undef, Num(9), Num(8), Str("Rising"), Str("NE")),
              BaseWeather, Num(72)),
     SurfData(Details(Num(35), Num(9), Undef, Str("Rising"), Str("NE")),
              BaseWeather, Num(72)),
     SurfData(BaseDetails, Weather(Undef), Num(72)),
     SurfData(BaseDetails, BaseWeather, Undef),
     SurfData(Details(Num(35), Num(9), Num(8), Undef, Str("NE")),
              BaseWeather, Num(72)),
     SurfData(Details(Num(35), Num(9), Num(8), Num(3), Str("NE")),
              BaseWeather, Num(72))}

\* What a request body or the conditions service can carry as surfData.
SurfDataInputs == {Undef} \cup MalformedSurfData \cup ValidSurfData

\* Every field of the record is present, of its type and in its range.
InRange(sd) ==
    /\ IsObject(sd) /\ IsObject(sd.details) /\ IsObject(sd.weather)
    /\ \A f \in {"wave_height_ft", "wave_period_sec", "wind_speed_kts",
                 "swell_direction_deg", "wind_direction_deg"} :
          IsNumber(sd.details[f]) /\ sd.details[f].n >= 0
    /\ IsNumber(sd.details.tide_height_ft)
    /\ IsString(sd.details.tide_state)
    /\ IsNumber(sd.weather.water_temperature_f)
    /\ IsNumber(sd.weather.air_temperature_f)
    /\ IsNumber(sd.score) /\ sd.score.n \in 0..100


(***************************************************************************)
(* index.ts: the deterministic fallback and the report assembly.           *)
(***************************************************************************)
\* A thrown error, as the value of the expression that raised it.
Throw == [t |-> "throw"]
IsThrow(v) == v.t = "throw"

\* obj.f: undefined when the object has no such property.
Get(obj, f) == IF f \in DOMAIN obj THEN obj[f] ELSE Undef

\* a || b
OrElse(a, b) == IF Truthy(a) THEN a ELSE b

\* The function createEnhancedFallbackReport is declared twice in index.ts
\* (lines 91 and 300); the later declaration replaces the earlier one, so
\* this is the text every call produces (lines 301-313; the degree sign
\* of the source is left out of the strings).
FallbackText(surfData, windMph) ==
    LET d == surfData.details
        condition == IF JsGE(surfData.score, GoodScoreMin) THEN "good"
                     ELSE IF JsGE(surfData.score, FairScoreMin) THEN "fair"
                     ELSE "poor"
        waveDesc == IF JsGE(d.wave_height_ft, SolidWaveMin) THEN "solid"
                    ELSE IF JsGE(d.wave_height_ft, FunSizedWaveMin) THEN "fun-sized"
                    ELSE "small"
        swellCompass == OrElse(d.swell_direction_compass, Str("unknown direction"))
        windCompass == OrElse(d.wind_direction_compass, Str("variable"))
        paragraph1 ==
            << "St. Augustine surf check shows ", waveDesc, " ",
               Interpolate(d.wave_height_ft, 10), "ft waves at ",
               Interpolate(d.wave_period_sec, 1), " seconds coming from the ",
               Interpolate(swellCompass, 1), ", delivering ",
               IF JsGE(d.wave_period_sec, PowerPeriodMin)
               THEN "decent power with some nice long rides"
               ELSE "quicker, choppier waves with less power",
               ". Wind is ", Interpolate(windMph, 1), " mph from the ",
               Interpolate(windCompass, 1), " which ",
               IF JsLT(windMph, GlassyWindBelow)
               THEN "is light enough for clean, glassy conditions"
               ELSE "is creating some texture and bump on the water",
               ". Tide is ", ToLowerCase(d.tide_state.s), " at ",
               Interpolate(d.tide_height_ft, 10), "ft and water temp is ",
               Interpolate(surfData.weather.water_temperature_f, 1), "F." >>
        paragraph2 ==
            << IF JsGE(d.wave_height_ft, PunchWaveMin)
               THEN "Grab your shortboard and head to Vilano Beach or the pier area where the waves should have some punch"
               ELSE "Perfect longboard day - try Vilano Beach or Crescent Beach for the mellow, rolling waves",
               ". ",
               IF JsLT(surfData.weather.water_temperature_f, WetsuitBelow)
               THEN "You'll want a 3/2mm wetsuit for that chilly water"
               ELSE "Spring suit or boardshorts should be perfect for the comfortable water temps",
               ". ",
               IF condition = "good" THEN "Definitely worth the paddle out today!"
               ELSE IF condition = "fair" THEN "Surfable conditions if you need your wave fix."
               ELSE "Might be better for beach walks, but conditions can change quickly." >>
    IN Template(paragraph1 \o << "\n\n" >> \o paragraph2)

\* createEnhancedFallbackReport with the compass labels lower-cased like
\* the tide label, without the || default: a missing label raises.
createEnhancedFallbackReport_NoDefault(surfData, windMph) ==
    IF ~IsObject(surfData.details) THEN Throw
    ELSE IF ~IsString(surfData.details.tide_state) THEN Throw
    ELSE IF ~IsString(surfData.details.swell_direction_compass) THEN Throw
    ELSE IF ~IsObject(surfData.weather) THEN Throw
    ELSE FallbackText(surfData, windMph)

\* createEnhancedFallbackReport joining its paragraphs with a single line
\* break.
createEnhancedFallbackReport_SingleBreak(surfData, windMph) ==
    IF ~IsObject(surfData.details) THEN Throw
    ELSE IF ~IsString(surfData.details.tide_state) THEN Throw
    ELSE IF ~IsObject(surfData.weather) THEN Throw
    ELSE LET toks == FallbackText(surfData, windMph).tokens
         IN Template([i \in DOMAIN toks |->
                         IF toks[i] = "\n\n" THEN "\n" ELSE toks[i]])

\* createEnhancedFallbackReport comparing the water temperature with <=.
createEnhancedFallbackReport_WetsuitAt65(surfData, windMph) ==
    IF ~IsObject(surfData.details) THEN Throw
    ELSE IF ~IsString(surfData.details.tide_state) THEN Throw
    ELSE IF ~IsObject(surfData.weather) THEN Throw
    ELSE LET toks == FallbackText(surfData, windMph).tokens
             water == surfData.weather.water_temperature_f
         IN Template([i \in DOMAIN toks |->
                         IF /\ toks[i] = "Spring suit or boardshorts should be perfect for the comfortable water temps"
                            /\ IsNumber(water) /\ water.n <= WetsuitBelow
                         THEN "You'll want a 3/2mm wetsuit for that chilly water"
                         ELSE toks[i]])

\* createEnhancedFallbackReport raises a TypeError when details or weather
\* is not an object and when tide_state has no toLowerCase method.
createEnhancedFallbackReport(surfData, windMph) ==
    IF ~IsObject(surfData.details) THEN Throw
    ELSE IF ~IsString(surfData.details.tide_state) THEN Throw
    ELSE IF ~IsObject(surfData.weather) THEN Throw
    ELSE FallbackText(surfData, windMph)

getBoardTypeRecommendation(waveHeight) ==
    IF JsGE(waveHeight, SolidWaveMin) THEN Str("Shortboard recommended")
    ELSE IF JsGE(waveHeight, FunboardWaveMin) THEN Str("Shortboard or funboard")
    ELSE Str("Longboard recommended")

\* The conditions block with the wind speed converted to miles per hour,
\* as the prompt and the fallback text have it.
IndexConditions_WindInMph(surfData) ==
    LET d == surfData.details
        w == surfData.weather
    IN [wave_height_ft |-> d.wave_height_ft,
        wave_period_sec |-> d.wave_period_sec,
        wind_speed_kts |-> KnotsToMph(d.wind_speed_kts),
        wind_direction_deg |-> d.wind_direction_deg,
        tide_state |-> d.tide_state,
        weather_description |-> w.weather_description,
        surfability_score |-> surfData.score,
        swell_direction_deg |-> d.swell_direction_deg,
        swell_direction_compass |-> d.swell_direction_compass,
        swell_direction_text |-> Get(d, "swell_direction_text"),
        swell_direction_description |-> Get(d, "swell_direction_description"),
        wind_direction_compass |-> d.wind_direction_compass,
        wind_direction_text |-> Get(d, "wind_direction_text"),
        wind_direction_description |-> Get(d, "wind_direction_description"),
        tide_height_ft |-> d.tide_height_ft,
        water_temperature_c |-> Get(w, "water_temperature_c"),
        water_temperature_f |-> w.water_temperature_f,
        air_temperature_c |-> Get(w, "air_temperature_c"),
        air_temperature_f |-> w.air_temperature_f]

\* The conditions block of an index.ts report (lines 175-200 and 251-276).
IndexConditions(surfData) ==
    LET d == surfData.details
        w == surfData.weather
    IN [wave_height_ft |-> d.wave_height_ft,
        wave_period_sec |-> d.wave_period_sec,
        wind_speed_kts |-> d.wind_speed_kts,
        wind_direction_deg |-> d.wind_direction_deg,
        tide_state |-> d.tide_state,
        weather_description |-> w.weather_description,
        surfability_score |-> surfData.score,
        swell_direction_deg |-> d.swell_direction_deg,
        swell_direction_compass |-> d.swell_direction_compass,
        swell_direction_text |-> Get(d, "swell_direction_text"),
        swell_direction_description |-> Get(d, "swell_direction_description"),
        wind_direction_compass |-> d.wind_direction_compass,
        wind_direction_text |-> Get(d, "wind_direction_text"),
        wind_direction_description |-> Get(d, "wind_direction_description"),
        tide_height_ft |-> d.tide_height_ft,
        water_temperature_c |-> Get(w, "water_temperature_c"),
        water_temperature_f |-> w.water_temperature_f,
        air_temperature_c |-> Get(w, "air_temperature_c"),
        air_temperature_f |-> w.air_temperature_f]

\* The catch block of generateDetailedSurfReport (lines 229-296): the
\* report built without the generator, or the error it raises.
IndexFallbackReport(surfData) ==
    IF ~IsObject(surfData.details) THEN Throw
    ELSE
    LET windMph == KnotsToMph(surfData.details.wind_speed_kts)
        fallbackReport == createEnhancedFallbackReport(surfData, windMph)
    IN IF IsThrow(fallbackReport) THEN Throw
       ELSE [t |-> "object",
             id |-> "surf_fallback_enhanced_",
             location |-> surfData.location,
             report |-> fallbackReport,
             conditions |-> IndexConditions(surfData),
             recommendations |->
                [board_type |-> getBoardTypeRecommendation(surfData.details.wave_height_ft),
                 wetsuit_thickness |->
                    IF JsLT(surfData.weather.water_temperature_f, WetsuitBelow)
                    THEN Str("3/2mm") ELSE Str("Spring suit"),
                 skill_level |->
                    IF JsGE(surfData.score, IntermediateScoreMin)
                    THEN Str("intermediate") ELSE Str("beginner"),
                 best_spots |-> List(<<"Vilano Beach", "St. Augustine Pier", "Crescent Beach">>),
                 timing_advice |-> Str("Check conditions regularly as they change throughout the day")],
             generation_meta |->
                [backend |-> "bun-enhanced-fallback",
                 model |-> "hardcoded-with-compass",
                 report_length |-> JsLength(fallbackReport)]]


(***************************************************************************)
(* The external generator (generateObject) and what it can answer.         *)
(***************************************************************************)
\* The call rejects: network error, timeout, schema rejection.
GenFailure == [t |-> "error"]
NoResult == [t |-> "none"]

ReportLens == {0} \cup ((MinReportLength - 1)..MaxReportLen)

\* A candidate for the schema of src/server.ts and test-port.ts, produced
\* by generator call k.  The generator is not trusted to enforce the schema.
Candidates(k) ==
    [t : {"object"},
     report : {Undef} \cup {GenText(k, n) : n \in ReportLens},
     boardRecommendation : {Undef, Str(""), Str("longboard")},
     skillLevel : {Str("intermediate")},
     bestSpots : {Undef, List(<<"Vilano Beach">>)},
     timingAdvice : {Undef, Str("Go early before the wind picks up")}]

\* A candidate for the schema of index.ts.
IndexRecommendations ==
    [t : {"object"},
     boardType : {Str("longboard")},
     wetsuitThickness : {Undef},
     skillLevel : {Str("intermediate")},
     bestSpots : {Undef, List(<<"Vilano Beach", "Crescent Beach">>)},
     timingAdvice : {Undef, Str("Go early before the wind picks up")}]

IndexCandidates ==
    [t : {"object"},
     conditionsAnalysis : {GenText(1, n) : n \in {0, 120}},
     recommendationsAndOutlook : {GenText(1, 100)},
     recommendations : {Undef} \cup IndexRecommendations]

GeneratorAnswers(v, k) ==
    {GenFailure} \cup (IF v = "index" THEN IndexCandidates ELSE Candidates(k))

(***************************************************************************)
(* Requests, responses and the effect of one step of a handler.            *)
(***************************************************************************)
Variants == {"index", "server", "testport", "purebun"}
Secret == Str("s3cret")
Keys == {Undef, Secret, Str("wrong")}
\* process.env: the secrets are set, or the variables are not set at all.
Envs == {[API_SECRET |-> x, CRON_SECRET |-> x] : x \in {Undef, Secret}}

BadJson == [t |-> "invalid-json"]
GenerateBodies == {BadJson} \cup [t : {"object"}, surfData : SurfDataInputs, apiKey : Keys]
CronBodies == {BadJson} \cup [t : {"object"}, cronSecret : Keys, vercelUrl : {Str("https://app")}]

\* The conditions fetch: it rejects (network error, timeout), or answers
\* with a status that is not OK, or answers OK with a JSON document.
FetchRejects == [t |-> "error"]
FetchNotOk == [t |-> "response", ok |-> FALSE, json |-> Undef]
\* A status that is not OK with an error document in JSON as its body
\* (FetchNotOk has a body that is not JSON).
FetchNotOkJson ==
    [t |-> "response", ok |-> FALSE,
     json |-> [t |-> "object", error |-> Str("Service unavailable")]]
FetchOutcomes ==
    {FetchRejects, FetchNotOk, FetchNotOkJson}
    \cup [t : {"response"}, ok : {TRUE}, json : SurfDataInputs]

NoReport == [t |-> "none"]
NoResponse == [t |-> "none"]
jsonResponse(data, status) == [t |-> "response", status |-> status, body |-> data]

\* What one step of a handler leaves behind: where the handler stands, the
\* error or verdict on the primary attempt, the report object it built, the
\* response it sent, the generator call it issued (0: none) and whether it
\* issued the save call.
Step(pcv, prim, rep, resp, call, sv) ==
    [pc |-> pcv, primary |-> prim, report |-> rep, response |-> resp,
     call |-> call, save |-> sv]
Respond(prim, rep, resp) == Step("done", prim, rep, resp, 0, FALSE)
CallGenerator(k, prim) == Step(IF k = 1 THEN "gen1" ELSE "gen2", prim, NoReport, NoResponse, k, FALSE)


\* Building the prompt reads surfData.details.* and surfData.weather.*: it
\* raises a TypeError when either is not an object, in every variant.
PromptRaises(surfData) ==
    ~IsObject(surfData.details) \/ ~IsObject(surfData.weather)

Unauthorized == jsonResponse([error |-> "Unauthorized"], 401)
MissingSurfData == jsonResponse([error |-> "Missing surf data"], 400)
\* The body of a 500 response: what failed and the message of the error.
Failure(what, details) ==
    jsonResponse([success |-> FALSE, error |-> what, details |-> details], 500)

(***************************************************************************)
(* index.ts                                                                *)
(***************************************************************************)
\* The try block of generateDetailedSurfReport after the generator has
\* answered (lines 162-227): the report, or the TypeError raised by
\* aiResponse.recommendations.boardType.
IndexPrimaryReport(surfData, aiResponse) ==
    IF ~IsObject(aiResponse.recommendations) THEN Throw
    ELSE
    LET fullReport ==
            GenText(1, JsLength(aiResponse.conditionsAnalysis) + 2
                       + JsLength(aiResponse.recommendationsAndOutlook))
    IN [t |-> "object",
        id |-> "surf_2para_",
        location |-> surfData.location,
        report |-> fullReport,
        conditions |-> IndexConditions(surfData),
        recommendations |->
           [board_type |-> aiResponse.recommendations.boardType,
            wetsuit_thickness |-> aiResponse.recommendations.wetsuitThickness,
            skill_level |-> aiResponse.recommendations.skillLevel,
            best_spots |-> aiResponse.recommendations.bestSpots,
            timing_advice |-> aiResponse.recommendations.timingAdvice],
        generation_meta |->
           [backend |-> "bun-enhanced-with-compass",
            model |-> "gpt-4o-mini",
            report_length |-> JsLength(fullReport)]]

\* handleRequest once generateDetailedSurfReport has returned or thrown:
\* the generate endpoint answers (lines 351-370), the cron endpoint goes on
\* to the save call (lines 394-407) or answers 500 (lines 436-443).
IndexSettle(endpoint, prim, result) ==
    IF IsThrow(result)
    THEN Respond(prim, NoReport,
                 Failure(IF endpoint = "generate" THEN "Generation failed"
                         ELSE "2-paragraph cron failed", "TypeError"))
    ELSE IF endpoint = "generate"
    THEN Respond(prim, result, jsonResponse([success |-> TRUE, report |-> result], 200))
    ELSE Step("save", prim, result, NoResponse, 0, TRUE)

\* generateDetailedSurfReport up to its await (lines 148-160): the prompt
\* is built inside the try block, so an error it raises enters the catch
\* block as a generator failure does.
IndexGenerateReport(endpoint, surfData) ==
    IF PromptRaises(surfData)
    THEN IndexSettle(endpoint, "threw", IndexFallbackReport(surfData))
    ELSE CallGenerator(1, "none")

\* generateDetailedSurfReport without its try/catch: a rejected generator
\* call propagates to the handler.
IndexAfterPrimary_Uncaught(endpoint, surfData, result) ==
    IF result = GenFailure
    THEN IndexSettle(endpoint, "failed", Throw)
    ELSE LET rep == IndexPrimaryReport(surfData, result)
         IN IF IsThrow(rep)
            THEN IndexSettle(endpoint, "threw", Throw)
            ELSE IndexSettle(endpoint, "accepted", rep)

\* generateDetailedSurfReport from its await on (lines 154-296).
IndexAfterPrimary(endpoint, surfData, result) ==
    IF result = GenFailure
    THEN IndexSettle(endpoint, "failed", IndexFallbackReport(surfData))
    ELSE LET rep == IndexPrimaryReport(surfData, result)
         IN IF IsThrow(rep)
            THEN IndexSettle(endpoint, "threw", IndexFallbackReport(surfData))
            ELSE IndexSettle(endpoint, "accepted", rep)

\* POST /generate-surf-report with the conditions looked at before the key.
IndexHandleGenerate_ValidatesFirst(env, body) ==
    IF body = BadJson
    THEN Respond("none", NoReport, Failure("Generation failed", "SyntaxError"))
    ELSE IF ~Truthy(body.surfData) THEN Respond("none", NoReport, MissingSurfData)
    ELSE IF body.apiKey # env.API_SECRET THEN Respond("none", NoReport, Unauthorized)
    ELSE IndexGenerateReport("generate", body.surfData)

\* POST /generate-surf-report (lines 338-371).
IndexHandleGenerate(env, body) ==
    IF body = BadJson
    THEN Respond("none", NoReport, Failure("Generation failed", "SyntaxError"))
    ELSE IF body.apiKey # env.API_SECRET THEN Respond("none", NoReport, Unauthorized)
    ELSE IF ~Truthy(body.surfData) THEN Respond("none", NoReport, MissingSurfData)
    ELSE IndexGenerateReport("generate", body.surfData)

\* POST /cron/generate-fresh-report up to the conditions fetch (lines 374-384).
IndexHandleCron(env, body) ==
    IF body = BadJson
    THEN Respond("none", NoReport, Failure("2-paragraph cron failed", "SyntaxError"))
    ELSE IF body.cronSecret # env.CRON_SECRET THEN Respond("none", NoReport, Unauthorized)
    ELSE Step("fetch", "none", NoReport, NoResponse, 0, FALSE)

\* The cron handler once the conditions fetch has settled (lines 384-394).
IndexAfterFetch(outcome) ==
    IF outcome = FetchRejects
    THEN Respond("none", NoReport, Failure("2-paragraph cron failed", "fetch failed"))
    ELSE IF ~outcome.ok
    THEN Respond("none", NoReport, Failure("2-paragraph cron failed", "Surf data failed"))
    ELSE IF ~IsObject(outcome.json)
    THEN Respond("none", NoReport, Failure("2-paragraph cron failed", "TypeError"))
    ELSE IndexGenerateReport("cron", outcome.json)

\* The cron handler once the awaited save call has settled, whatever its
\* outcome (lines 409-434).
IndexAfterSave(prim, rep) ==
    Respond(prim, rep,
            jsonResponse([success |-> TRUE,
                          backend |-> "bun-enhanced",
                          actions |-> [surf_data_fetched |-> TRUE,
                                       ai_report_generated |-> TRUE,
                                       new_report_id |-> rep.id,
                                       report_quality |->
                                          [length |-> rep.generation_meta.report_length,
                                           backend |-> rep.generation_meta.backend]]],
                         200))


(***************************************************************************)
(* src/server.ts                                                           *)
(***************************************************************************)
\* The conditions block of a src/server.ts or test-port.ts report.
BasicConditions(surfData) ==
    [wave_height_ft |-> surfData.details.wave_height_ft,
     wave_period_sec |-> surfData.details.wave_period_sec,
     wind_speed_kts |-> surfData.details.wind_speed_kts,
     wind_direction_deg |-> surfData.details.wind_direction_deg,
     tide_state |-> surfData.details.tide_state,
     weather_description |-> surfData.weather.weather_description,
     surfability_score |-> surfData.score]

\* The report object of lines 73-100 and 177-204.
ServerReport(surfData, aiResponse) ==
    [t |-> "object",
     id |-> "surf_bun_",
     location |-> surfData.location,
     report |-> aiResponse.report,
     conditions |-> BasicConditions(surfData),
     recommendations |->
        [board_type |-> aiResponse.boardRecommendation,
         skill_level |-> aiResponse.skillLevel,
         best_spots |-> aiResponse.bestSpots,
         timing_advice |-> aiResponse.timingAdvice],
     generation_meta |-> [backend |-> "bun-hono-ultra", model |-> "gpt-4o-mini"]]

\* The success response of the cron endpoint (lines 220-236).
ServerCronSuccess(rep) ==
    jsonResponse([success |-> TRUE,
                  backend |-> "bun-hono-ultra",
                  actions |-> [surf_data_fetched |-> TRUE,
                               ai_report_generated |-> TRUE,
                               report_saved_async |-> TRUE,
                               new_report_id |-> rep.id]], 200)

\* Both handlers up to the generator call: the prompt, then generateObject.
ServerStartGeneration(endpoint, surfData) ==
    IF PromptRaises(surfData)
    THEN Respond("none", NoReport,
                 Failure(IF endpoint = "generate" THEN "AI generation failed"
                         ELSE "Bun cron failed", "TypeError"))
    ELSE CallGenerator(1, "none")

\* POST /generate-surf-report up to the generator call (lines 35-69).
ServerHandleGenerate(env, body) ==
    IF body = BadJson
    THEN Respond("none", NoReport, Failure("AI generation failed", "SyntaxError"))
    ELSE IF body.apiKey # env.API_SECRET THEN Respond("none", NoReport, Unauthorized)
    ELSE IF ~Truthy(body.surfData) THEN Respond("none", NoReport, MissingSurfData)
    ELSE ServerStartGeneration("generate", body.surfData)

\* POST /cron/generate-fresh-report up to the conditions fetch (lines 128-144).
ServerHandleCron(env, body) ==
    IF body = BadJson
    THEN Respond("none", NoReport, Failure("Bun cron failed", "SyntaxError"))
    ELSE IF body.cronSecret # env.CRON_SECRET THEN Respond("none", NoReport, Unauthorized)
    ELSE Step("fetch", "none", NoReport, NoResponse, 0, FALSE)

\* The cron handler once the conditions fetch has settled (lines 141-172).
ServerAfterFetch(outcome) ==
    IF outcome = FetchRejects
    THEN Respond("none", NoReport, Failure("Bun cron failed", "fetch failed"))
    ELSE IF ~outcome.ok
    THEN Respond("none", NoReport, Failure("Bun cron failed", "Surf data failed"))
    ELSE IF ~IsObject(outcome.json)
    THEN Respond("none", NoReport, Failure("Bun cron failed", "TypeError"))
    ELSE ServerStartGeneration("cron", outcome.json)

\* The handlers answering a rejected generator call through c.json without
\* the 500 status.
ServerAfterPrimary_NoStatus(endpoint, surfData, result) ==
    IF result = GenFailure
    THEN Respond("failed", NoReport,
                 jsonResponse([success |-> FALSE,
                               error |-> "AI generation failed",
                               details |-> "generator error"], 200))
    ELSE LET rep == ServerReport(surfData, result)
         IN IF endpoint = "generate"
            THEN Respond("accepted", rep,
                         jsonResponse([success |-> TRUE, report |-> rep], 200))
            ELSE Step("done", "accepted", rep, ServerCronSuccess(rep), 0, TRUE)

\* Both handlers once the generator has answered (lines 63-125 and
\* 157-248): a rejected call reaches the catch block of the handler; any
\* answer is assembled as it is.  The cron handler issues the save call
\* without awaiting it and answers at once.
ServerAfterPrimary(endpoint, surfData, result) ==
    IF result = GenFailure
    THEN Respond("failed", NoReport,
                 Failure(IF endpoint = "generate" THEN "AI generation failed"
                         ELSE "Bun cron failed", "generator error"))
    ELSE LET rep == ServerReport(surfData, result)
         IN IF endpoint = "generate"
            THEN Respond("accepted", rep,
                         jsonResponse([success |-> TRUE, report |-> rep], 200))
            ELSE Step("done", "accepted", rep, ServerCronSuccess(rep), 0, TRUE)


(***************************************************************************)
(* src/server-pure-bun.ts                                                  *)
(***************************************************************************)
\* The report object of lines 81-106.
PureBunReport(surfData, aiResponse) ==
    [t |-> "object",
     id |-> "surf_bun_",
     location |-> surfData.location,
     report |-> aiResponse.report,
     conditions |-> BasicConditions(surfData),
     recommendations |->
        [board_type |-> aiResponse.boardRecommendation,
         skill_level |-> aiResponse.skillLevel,
         best_spots |-> aiResponse.bestSpots,
         timing_advice |-> aiResponse.timingAdvice],
     generation_meta |-> [backend |-> "pure-bun"]]

\* The 500 response of the cron endpoint (lines 149-154).
PureBunCronFailure(message) ==
    jsonResponse([success |-> FALSE, error |-> message], 500)

\* POST /generate-surf-report up to the generator call (lines 44-77): the
\* prompt reads surfData.details.* and surfData.score only.
PureBunHandleGenerate(env, body) ==
    IF body = BadJson
    THEN Respond("none", NoReport, Failure("AI generation failed", "SyntaxError"))
    ELSE IF body.apiKey # env.API_SECRET THEN Respond("none", NoReport, Unauthorized)
    ELSE IF ~Truthy(body.surfData) THEN Respond("none", NoReport, MissingSurfData)
    ELSE IF ~IsObject(body.surfData.details)
    THEN Respond("none", NoReport, Failure("AI generation failed", "TypeError"))
    ELSE CallGenerator(1, "none")

\* POST /cron/generate-fresh-report up to the conditions fetch (lines 126-138).
PureBunHandleCron(env, body) ==
    IF body = BadJson
    THEN Respond("none", NoReport, PureBunCronFailure("SyntaxError"))
    ELSE IF body.cronSecret # env.CRON_SECRET THEN Respond("none", NoReport, Unauthorized)
    ELSE Step("fetch", "none", NoReport, NoResponse, 0, FALSE)

\* The cron handler once the conditions fetch has settled (lines 138-154):
\* the status of the answer is not looked at, its body is parsed, and the
\* handler answers success without generating or saving anything.
PureBunAfterFetch(outcome) ==
    IF outcome = FetchRejects
    THEN Respond("none", NoReport, PureBunCronFailure("fetch failed"))
    ELSE IF outcome = FetchNotOk
    THEN Respond("none", NoReport, PureBunCronFailure("SyntaxError"))
    ELSE Respond("none", NoReport,
                 jsonResponse([success |-> TRUE,
                               message |-> "Report generated via cron"], 200))

\* The generate handler once the generator has answered (lines 71-122).
PureBunAfterPrimary(endpoint, surfData, result) ==
    IF result = GenFailure
    THEN Respond("failed", NoReport, Failure("AI generation failed", "generator error"))
    ELSE IF ~IsObject(surfData.weather)
    THEN Respond("threw", NoReport, Failure("AI generation failed", "TypeError"))
    ELSE LET rep == PureBunReport(surfData, result)
         IN Respond("accepted", rep,
                    jsonResponse([success |-> TRUE, report |-> rep], 200))

(***************************************************************************)
(* test-port.ts                                                            *)
(***************************************************************************)
\* The validation of the primary candidate: lines 253-259 in
\* handleGenerateSurfReport, lines 411-413 in handleCronGeneration, which
\* does not look at the board recommendation.  The verdict is the error
\* thrown, or "accepted".
TestPortValidate(endpoint, aiResponse) ==
    IF ~Truthy(aiResponse.report) \/ JsLength(aiResponse.report) < MinReportLength
    THEN "too_short"
    ELSE IF endpoint = "generate" /\ ~Truthy(aiResponse.boardRecommendation)
    THEN "no_board"
    ELSE "accepted"

\* The report object of handleCronGeneration: lines 418-447 (method
\* "primary") and lines 477-506 (method "fallback").
TestPortCronReport(surfData, aiResponse, method) ==
    [t |-> "object",
     id |-> "surf_bun_",
     location |-> surfData.location,
     report |-> aiResponse.report,
     conditions |-> BasicConditions(surfData),
     recommendations |->
        [board_type |-> aiResponse.boardRecommendation,
         skill_level |-> aiResponse.skillLevel,
         best_spots |-> OrElse(aiResponse.bestSpots,
                               List(<<"Vilano Beach", "St. Augustine Pier">>)),
         timing_advice |-> OrElse(aiResponse.timingAdvice,
                                  IF method = "primary"
                                  THEN Str("Check conditions throughout the day")
                                  ELSE Str("Check conditions regularly"))],
     generation_meta |->
        [backend |-> "pure-bun-ultra-v2",
         model |-> "gpt-4o-mini",
         report_length |-> JsLength(aiResponse.report),
         generation_method |-> method]]

TestPortError(endpoint) ==
    IF endpoint = "generate" THEN "AI generation failed" ELSE "Pure Bun cron failed"

\* What follows the inner try/catch in both handlers.  aiResponse, aiTime
\* and report are declared with const inside the try block and inside the
\* catch block, so neither is in scope after them: line 294
\* (aiResponse.report.length) and line 518 (JSON.stringify({ report }), an
\* argument of the save call, evaluated before fetch is called) raise a
\* ReferenceError, which the outer catch answers with a 500.  No save call
\* is issued and no success response is sent.
TestPortAfterTryCatch(endpoint, prim, rep) ==
    Respond(prim, rep, Failure(TestPortError(endpoint), "ReferenceError"))

\* Both handlers up to the primary generator call: createDetailedPrompt
\* (lines 237 and 397) is outside the inner try block.
TestPortStartGeneration(endpoint, surfData) ==
    IF PromptRaises(surfData)
    THEN Respond("none", NoReport, Failure(TestPortError(endpoint), "TypeError"))
    ELSE CallGenerator(1, "none")

\* handleGenerateSurfReport up to the primary call (lines 212-248).
TestPortHandleGenerate(env, body) ==
    IF body = BadJson
    THEN Respond("none", NoReport, jsonResponse([error |-> "Invalid JSON"], 400))
    ELSE IF body.apiKey # env.API_SECRET THEN Respond("none", NoReport, Unauthorized)
    ELSE IF ~Truthy(body.surfData) THEN Respond("none", NoReport, MissingSurfData)
    ELSE TestPortStartGeneration("generate", body.surfData)

\* handleCronGeneration up to the conditions fetch (lines 360-384).
TestPortHandleCron(env, body) ==
    IF body = BadJson
    THEN Respond("none", NoReport, jsonResponse([error |-> "Invalid JSON"], 400))
    ELSE IF body.cronSecret # env.CRON_SECRET THEN Respond("none", NoReport, Unauthorized)
    ELSE Step("fetch", "none", NoReport, NoResponse, 0, FALSE)

\* handleCronGeneration once the conditions fetch has settled (lines 381-406).
TestPortAfterFetch(outcome) ==
    IF outcome = FetchRejects
    THEN Respond("none", NoReport, Failure("Pure Bun cron failed", "fetch failed"))
    ELSE IF ~outcome.ok
    THEN Respond("none", NoReport, Failure("Pure Bun cron failed", "Surf data failed"))
    ELSE IF ~IsObject(outcome.json)
    THEN Respond("none", NoReport, Failure("Pure Bun cron failed", "TypeError"))
    ELSE TestPortStartGeneration("cron", outcome.json)

\* The handlers issuing the secondary call whatever the verdict on the
\* primary candidate.
TestPortAfterPrimary_AlwaysSecondary(endpoint, surfData, result) ==
    IF result = GenFailure THEN CallGenerator(2, "failed")
    ELSE CallGenerator(2, TestPortValidate(endpoint, result))

\* Both handlers once the primary call has settled (lines 241-285 and
\* 399-472): a rejected call and a rejected candidate enter the catch
\* block, which issues the secondary call; an accepted candidate leaves
\* the try block (in the cron handler with the report object built).
TestPortAfterPrimary(endpoint, surfData, result) ==
    IF result = GenFailure THEN CallGenerator(2, "failed")
    ELSE LET verdict == TestPortValidate(endpoint, result)
         IN IF verdict # "accepted" THEN CallGenerator(2, verdict)
            ELSE TestPortAfterTryCatch(
                     endpoint, "accepted",
                     IF endpoint = "cron"
                     THEN TestPortCronReport(surfData, result, "primary")
                     ELSE NoReport)

\* The catch block of handleCronGeneration labelling its report like the
\* try block does.
TestPortAfterSecondary_PrimaryLabel(endpoint, surfData, prim, result) ==
    IF result = GenFailure
    THEN Respond(prim, NoReport, Failure(TestPortError(endpoint), "generator error"))
    ELSE IF ~IsString(result.report)
    THEN Respond(prim, NoReport, Failure(TestPortError(endpoint), "TypeError"))
    ELSE TestPortAfterTryCatch(
             endpoint, prim,
             IF endpoint = "cron"
             THEN TestPortCronReport(surfData, result, "primary")
             ELSE NoReport)

\* Both handlers once the secondary call has settled (lines 279-291 and
\* 466-509): a rejected call propagates to the outer catch; the candidate
\* is not validated, and reading the length of an absent report raises a
\* TypeError (lines 290 and 503).
TestPortAfterSecondary(endpoint, surfData, prim, result) ==
    IF result = GenFailure
    THEN Respond(prim, NoReport, Failure(TestPortError(endpoint), "generator error"))
    ELSE IF ~IsString(result.report)
    THEN Respond(prim, NoReport, Failure(TestPortError(endpoint), "TypeError"))
    ELSE TestPortAfterTryCatch(
             endpoint, prim,
             IF endpoint = "cron"
             THEN TestPortCronReport(surfData, result, "fallback")
             ELSE NoReport)

(***************************************************************************)
(* The handlers of the variant that runs.                                  *)
(***************************************************************************)
HandleGenerate(v, env, body) ==
    CASE v = "index" -> IndexHandleGenerate(env, body)
      [] v = "server" -> ServerHandleGenerate(env, body)
      [] v = "testport" -> TestPortHandleGenerate(env, body)
      [] v = "purebun" -> PureBunHandleGenerate(env, body)

HandleCron(v, env, body) ==
    CASE v = "index" -> IndexHandleCron(env, body)
      [] v = "server" -> ServerHandleCron(env, body)
      [] v = "testport" -> TestPortHandleCron(env, body)
      [] v = "purebun" -> PureBunHandleCron(env, body)

AfterFetch(v, outcome) ==
    CASE v = "index" -> IndexAfterFetch(outcome)
      [] v = "server" -> ServerAfterFetch(outcome)
      [] v = "testport" -> TestPortAfterFetch(outcome)
      [] v = "purebun" -> PureBunAfterFetch(outcome)

AfterPrimary(v, endpoint, surfData, result) ==
    CASE v = "index" -> IndexAfterPrimary(endpoint, surfData, result)
      [] v = "server" -> ServerAfterPrimary(endpoint, surfData, result)
      [] v = "testport" -> TestPortAfterPrimary(endpoint, surfData, result)
      [] v = "purebun" -> PureBunAfterPrimary(endpoint, surfData, result)

(***************************************************************************)
(* The clock and the random suffix of a report.                            *)
(***************************************************************************)
\* Math.random().toString(36).substr(2, 4): some of the suffixes it yields.
Suffixes == {"k3f9", "0a1z"}

NoStamp == [t |-> "none"]
NoId == [t |-> "none"]

\* The fields of a report object that come from the clock and from
\* Math.random, in the order the object literal evaluates them: id reads
\* Date.now() and Math.random(), timestamp reads new Date(), cached_until
\* reads Date.now() again and adds the window.  The readings are in
\* milliseconds; a later reading is not before an earlier one.
Stamps(from) ==
    {[t |-> "stamp", ms |-> a, suffix |-> x, timestamp |-> b,
      cached_until |-> c + CacheWindowMs] :
        <<a, b, c, x>> \in
           {q \in (from..MaxClock) \X (from..MaxClock) \X (from..MaxClock) \X Suffixes :
               q[1] <= q[2] /\ q[2] <= q[3]}}

\* The id of a report: prefix, Date.now() and the random suffix.
ReportId(rep, st) == [t |-> "id", prefix |-> rep.id, ms |-> st.ms, suffix |-> st.suffix]

(***************************************************************************)
(* The prompts and the labels they derive from the conditions.             *)
(***************************************************************************)
NoPrompt == [t |-> "none"]

\* Math.round(degrees / 22.5) for a whole number of degrees.
RoundSectors(n) == (4 * n + 45) \div 90

\* index.ts, lines 118-123.
getSwellDirectionText(degrees) ==
    IF JsGE(degrees, 315) \/ JsLT(degrees, 45) THEN "North"
    ELSE IF JsGE(degrees, 45) /\ JsLT(degrees, 135) THEN "East"
    ELSE IF JsGE(degrees, 135) /\ JsLT(degrees, 225) THEN "South"
    ELSE "West"

directions ==
    <<"North", "NNE", "NE", "ENE", "East", "ESE", "SE", "SSE",
      "South", "SSW", "SW", "WSW", "West", "WNW", "NW", "NNW">>

\* index.ts, lines 125-130: directions[NaN] is undefined.
getWindDirectionText(degrees) ==
    IF IsNumber(degrees) THEN directions[(RoundSectors(degrees.n) % 16) + 1]
    ELSE "undefined"

\* test-port.ts, lines 198-203.
getSwellDirection(degrees) ==
    IF JsGE(degrees, 315) \/ JsLT(degrees, 45) THEN "North"
    ELSE IF JsGE(degrees, 45) /\ JsLT(degrees, 135) THEN "East"
    ELSE IF JsGE(degrees, 135) /\ JsLT(degrees, 225) THEN "South"
    ELSE "West"

\* test-port.ts, lines 205-210.
getWindDirection(degrees) ==
    IF JsGE(degrees, 315) \/ JsLT(degrees, 45) THEN "North"
    ELSE IF JsGE(degrees, 45) /\ JsLT(degrees, 135) THEN "East"
    ELSE IF JsGE(degrees, 135) /\ JsLT(degrees, 225) THEN "South"
    ELSE "West"

\* A prompt: the text of its template with the slots filled in.  Two
\* prompts of one template are the same text when their slots are equal.
Prompt(template, slots) == [t |-> "string", template |-> template, slots |-> slots]

\* index.ts, lines 41-73.
createDetailedSurfPrompt(surfData) ==
    LET details == surfData.details
        weather == surfData.weather
        windMph == KnotsToMph(details.wind_speed_kts)
    IN Prompt("createDetailedSurfPrompt",
              [wave_height_ft |-> Interpolate(details.wave_height_ft, 10),
               wave_period_sec |-> Interpolate(details.wave_period_sec, 1),
               swell_direction_deg |-> Interpolate(details.swell_direction_deg, 1),
               swellDirection |-> getSwellDirectionText(details.swell_direction_deg),
               windMph |-> Interpolate(windMph, 1),
               windDirection |-> getWindDirectionText(details.wind_direction_deg),
               tide_state |-> Interpolate(details.tide_state, 1),
               tide_height_ft |-> Interpolate(details.tide_height_ft, 1),
               water_temperature_f |-> Interpolate(weather.water_temperature_f, 1),
               weather_description |-> Interpolate(weather.weather_description, 1),
               score |-> Interpolate(surfData.score, 1)])

\* test-port.ts, lines 147-150: the part of the day at the hour the wall
\* clock shows in New York.
TimeOfDay(h) == IF h < 12 THEN "morning" ELSE IF h < 17 THEN "afternoon" ELSE "evening"

\* test-port.ts, lines 143-196.
createDetailedPrompt(surfData, h) ==
    LET details == surfData.details
        weather == surfData.weather
        score == surfData.score
        windSpeedMph == KnotsToMph(details.wind_speed_kts)
        windEffect == IF JsLT(windSpeedMph, 6) THEN "glassy"
                      ELSE IF JsLT(windSpeedMph, 12) THEN "light texture"
                      ELSE IF JsLT(windSpeedMph, 17) THEN "bumpy"
                      ELSE "blown out"
        waveQuality == IF JsGE(score, 80) THEN "firing"
                       ELSE IF JsGE(score, 65) THEN "solid"
                       ELSE IF JsGE(score, 45) THEN "rideable"
                       ELSE "pretty mellow"
        periodLabel == IF JsGE(details.wave_period_sec, 10) THEN "long period groundswell"
                       ELSE IF JsGE(details.wave_period_sec, 7) THEN "decent period"
                       ELSE "short period wind waves"
    IN Prompt("createDetailedPrompt",
              [timeOfDay |-> TimeOfDay(h),
               location |-> Interpolate(surfData.location, 1),
               wave_height_ft |-> Interpolate(details.wave_height_ft, 10),
               wave_period_sec |-> Interpolate(details.wave_period_sec, 1),
               periodLabel |-> periodLabel,
               swell_direction_deg |-> Interpolate(details.swell_direction_deg, 1),
               swellDirection |-> getSwellDirection(details.swell_direction_deg),
               windSpeedMph |-> Interpolate(windSpeedMph, 1),
               wind_direction_deg |-> Interpolate(details.wind_direction_deg, 1),
               windDirection |-> getWindDirection(details.wind_direction_deg),
               windEffect |-> windEffect,
               tide_state |-> Interpolate(details.tide_state, 1),
               tide_height_ft |-> Interpolate(details.tide_height_ft, 1),
               air_temperature_f |-> Interpolate(weather.air_temperature_f, 1),
               water_temperature_f |-> Interpolate(weather.water_temperature_f, 1),
               weather_description |-> Interpolate(weather.weather_description, 1),
               score |-> Interpolate(score, 1),
               waveQuality |-> waveQuality])

(***************************************************************************)
(* State.                                                                  *)
(***************************************************************************)
VARIABLES
    variant,    \* the server file that runs
    env,        \* process.env
    pc,         \* where the handler of the current request stands
    req,        \* the current request: endpoint and body
    surfData,   \* the conditions the handler holds
    genCalls,   \* generator calls issued for the current request
    genPending, \* generator calls issued and not yet settled
    genResult,  \* the answer of the outstanding generator call, once settled
    primary,    \* the outcome of the primary attempt
    report,     \* the report object the handler has built
    response,   \* the response sent to the caller
    save,       \* the save call: none, pending, ok, failed
    fetched,    \* the conditions fetch: none, rejected, not_ok, ok
    stamp,      \* the clock and random fields of the report object
    prevId,     \* the id of the report built before this request
    heard,      \* the outbound answers the handler has consumed, in order
    parked,     \* a second request in flight, suspended at one of its awaits
    hour,       \* the hour of the day in New York, as the wall clock gives it
    prompt      \* the prompt built last

vars == <<variant, env, pc, req, surfData, genCalls, genPending, genResult,
          primary, report, response, save, fetched, stamp, prevId, heard, parked,
          hour, prompt>>

\* No second request is in flight.
NoContext == [t |-> "none"]

NoRequest == [endpoint |-> "none", body |-> Undef]

Init ==
    /\ variant \in Variants
    /\ env \in Envs
    /\ pc = "idle"
    /\ req = NoRequest
    /\ surfData = Undef
    /\ genCalls = 0
    /\ genPending = 0
    /\ genResult = NoResult
    /\ primary = "none"
    /\ report = NoReport
    /\ response = NoResponse
    /\ save = "none"
    /\ fetched = "none"
    /\ stamp = NoStamp
    /\ prevId = NoId
    /\ heard = <<>>
    /\ parked = NoContext
    /\ hour = 0
    /\ prompt = NoPrompt

\* The handler has run to its next suspension point or to its response.
Apply(step) ==
    /\ pc' = step.pc
    /\ primary' = step.primary
    /\ report' = step.report
    /\ response' = step.response
    /\ genCalls' = IF step.call > 0 THEN genCalls + 1 ELSE genCalls
    /\ genPending' = IF step.call > 0 THEN genPending + 1 ELSE genPending
    /\ genResult' = NoResult
    /\ stamp' \in IF step.report = NoReport THEN {NoStamp}
                  ELSE IF report # NoReport THEN {stamp}
                  ELSE Stamps(IF prevId = NoId THEN 0 ELSE prevId.ms)

\* The step has issued the save call, or left it as it was.
IssueSave(step) == save' = IF step.save THEN "pending" ELSE save

\* A request arrives and its handler runs up to its first outbound call.
ReceiveGenerate ==
    /\ pc = "idle"
    /\ \E body \in GenerateBodies :
          /\ req' = [endpoint |-> "generate", body |-> body]
          /\ surfData' = IF body = BadJson THEN Undef ELSE body.surfData
          /\ Apply(HandleGenerate(variant, env, body))
          /\ IssueSave(HandleGenerate(variant, env, body))
    /\ UNCHANGED <<variant, env, fetched, prevId, heard, parked, hour, prompt>>

ReceiveCron ==
    /\ pc = "idle"
    /\ \E body \in CronBodies :
          /\ req' = [endpoint |-> "cron", body |-> body]
          /\ Apply(HandleCron(variant, env, body))
          /\ IssueSave(HandleCron(variant, env, body))
    /\ UNCHANGED <<variant, env, surfData, fetched, prevId, heard, parked, hour, prompt>>

\* The conditions fetch settles with an outcome and the cron handler resumes.
FetchSettles(outcome) ==
    /\ pc = "fetch"
    /\ surfData' = IF outcome = FetchRejects THEN Undef ELSE outcome.json
    /\ fetched' = IF outcome = FetchRejects THEN "rejected"
                  ELSE IF ~outcome.ok THEN "not_ok" ELSE "ok"
    /\ Apply(AfterFetch(variant, outcome))
    /\ IssueSave(AfterFetch(variant, outcome))
    /\ UNCHANGED <<variant, env, req, prevId, hour, prompt>>

FetchReturns ==
    /\ \E outcome \in FetchOutcomes : FetchSettles(outcome)
    /\ UNCHANGED <<heard, parked>>

\* The outstanding generator call settles with an answer.
GeneratorSettles(answer) ==
    /\ genPending > 0
    /\ genResult = NoResult
    /\ genResult' = answer
    /\ genPending' = genPending - 1
    /\ UNCHANGED <<variant, env, pc, req, surfData, genCalls, primary, report,
                   response, save, fetched, stamp, prevId, hour, prompt>>

GeneratorResponds ==
    /\ \E answer \in GeneratorAnswers(variant, genCalls) : GeneratorSettles(answer)
    /\ UNCHANGED <<heard, parked>>

\* The handler resumes after the primary generator call.
ResumePrimary ==
    /\ pc = "gen1"
    /\ genResult # NoResult
    /\ Apply(AfterPrimary(variant, req.endpoint, surfData, genResult))
    /\ IssueSave(AfterPrimary(variant, req.endpoint, surfData, genResult))
    /\ UNCHANGED <<variant, env, req, surfData, fetched, prevId, heard, parked, hour, prompt>>

\* The handler of test-port.ts resumes after the secondary generator call.
ResumeSecondary ==
    /\ pc = "gen2"
    /\ genResult # NoResult
    /\ Apply(TestPortAfterSecondary(req.endpoint, surfData, primary, genResult))
    /\ IssueSave(TestPortAfterSecondary(req.endpoint, surfData, primary, genResult))
    /\ UNCHANGED <<variant, env, req, surfData, fetched, prevId, heard, parked, hour, prompt>>

\* The save call settles, the cron handler of index.ts awaiting it outside
\* a try block of its own: a failed save reaches the catch block of the
\* handler.
SaveReturns_Propagates ==
    /\ save = "pending"
    /\ \E outcome \in {"ok", "failed"} :
          IF pc = "save"
          THEN /\ Apply(IF outcome = "ok" THEN IndexAfterSave(primary, report)
                        ELSE Respond(primary, report,
                                     Failure("2-paragraph cron failed", "save failed")))
               /\ save' = outcome
          ELSE /\ save' = outcome
               /\ UNCHANGED <<pc, primary, report, response, genCalls, genPending,
                              genResult, stamp>>
    /\ UNCHANGED <<variant, env, req, surfData, fetched, prevId, heard, parked, hour, prompt>>

\* The save call settles.  The cron handler of index.ts awaits it and then
\* answers; src/server.ts has answered already.
SaveReturns ==
    /\ save = "pending"
    /\ \E outcome \in {"ok", "failed"} :
          IF pc = "save"
          THEN /\ Apply(IndexAfterSave(primary, report))
               /\ save' = outcome
          ELSE /\ save' = outcome
               /\ UNCHANGED <<pc, primary, report, response, genCalls, genPending,
                              genResult, stamp>>
    /\ UNCHANGED <<variant, env, req, surfData, fetched, prevId, heard, parked, hour, prompt>>

\* The request is over; the server waits for the next one.
NextRequest ==
    /\ pc = "done"
    /\ save # "pending"
    /\ pc' = "idle"
    /\ req' = NoRequest
    /\ surfData' = Undef
    /\ genCalls' = 0
    /\ genPending' = 0
    /\ genResult' = NoResult
    /\ primary' = "none"
    /\ report' = NoReport
    /\ response' = NoResponse
    /\ save' = "none"
    /\ fetched' = "none"
    /\ stamp' = NoStamp
    /\ prevId' = IF report # NoReport THEN ReportId(report, stamp) ELSE prevId
    /\ UNCHANGED <<variant, env, heard, parked, hour, prompt>>

Next ==
    \/ ReceiveGenerate
    \/ ReceiveCron
    \/ FetchReturns
    \/ GeneratorResponds
    \/ ResumePrimary
    \/ ResumeSecondary
    \/ SaveReturns
    \/ NextRequest

Spec == Init /\ [][Next]_vars

(***************************************************************************)
(* Two requests in flight.  A handler runs from one await to the next      *)
(* without interruption; while it waits, the handler of the other request  *)
(* may run.  The variables above hold the request whose handler runs or    *)
(* has run last, parked holds the other one.                               *)
(***************************************************************************)
\* What a handler's invocation holds: its locals and its outstanding calls.
Context ==
    [t |-> "context", pc |-> pc, req |-> req, surfData |-> surfData,
     genCalls |-> genCalls, genPending |-> genPending, genResult |-> genResult,
     primary |-> primary, report |-> report, response |-> response,
     save |-> save, fetched |-> fetched, stamp |-> stamp, heard |-> heard]

IdleContext ==
    [t |-> "context", pc |-> "idle", req |-> NoRequest, surfData |-> Undef,
     genCalls |-> 0, genPending |-> 0, genResult |-> NoResult,
     primary |-> "none", report |-> NoReport, response |-> NoResponse,
     save |-> "none", fetched |-> "none", stamp |-> NoStamp, heard |-> <<>>]

\* The conditions the two requests carry or fetch: two records that differ.
PairSurfData ==
    {SurfData(Details(Num(h), Num(9), Num(8), Str("Rising"), Str("NE")),
              BaseWeather, Num(72)) : h \in {20, 35}}
PairBodies ==
    [t : {"object"}, surfData : PairSurfData, apiKey : {Secret, Str("wrong")}]
    \cup [t : {"object"}, cronSecret : {Secret}, vercelUrl : {Str("https://app")}]
PairFetchOutcomes ==
    {FetchNotOk} \cup [t : {"response"}, ok : {TRUE}, json : PairSurfData]
\* Answers of generator call k: a failure, a candidate without its
\* recommendations (index.ts) or with a text too short or long enough.
PairAnswers(v, k) ==
    {a \in GeneratorAnswers(v, k) :
        \/ a = GenFailure
        \/ /\ v = "index"
           /\ a.conditionsAnalysis = GenText(1, 120)
           /\ \/ a.recommendations = Undef
              \/ /\ a.recommendations # Undef
                 /\ a.recommendations.bestSpots # Undef
                 /\ a.recommendations.timingAdvice # Undef
        \/ /\ v # "index"
           /\ a.report \in {GenText(k, MinReportLength - 1), GenText(k, MinReportLength)}
           /\ a.boardRecommendation = Str("longboard")
           /\ a.bestSpots # Undef
           /\ a.timingAdvice # Undef}

\* The clock readings and the random suffix of the reports of PairSpec.
PairStamp == [t |-> "stamp", ms |-> 0, suffix |-> "k3f9", timestamp |-> 0,
              cached_until |-> CacheWindowMs]

PairInit ==
    /\ variant \in Variants
    /\ env = [API_SECRET |-> Secret, CRON_SECRET |-> Secret]
    /\ pc = "idle"
    /\ req = NoRequest
    /\ surfData = Undef
    /\ genCalls = 0
    /\ genPending = 0
    /\ genResult = NoResult
    /\ primary = "none"
    /\ report = NoReport
    /\ response = NoResponse
    /\ save = "none"
    /\ fetched = "none"
    /\ stamp = NoStamp
    /\ prevId = NoId
    /\ heard = <<>>
    /\ parked = IdleContext
    /\ hour = 0
    /\ prompt = NoPrompt

PairReceive ==
    /\ ReceiveGenerate \/ ReceiveCron
    /\ req'.body \in PairBodies
    /\ stamp' \in {NoStamp, PairStamp}

PairFetchReturns ==
    /\ \E outcome \in PairFetchOutcomes :
          /\ FetchSettles(outcome)
          /\ heard' = Append(heard, outcome)
    /\ stamp' \in {NoStamp, PairStamp}
    /\ UNCHANGED parked

PairGeneratorResponds ==
    /\ \E answer \in PairAnswers(variant, genCalls) :
          /\ GeneratorSettles(answer)
          /\ heard' = Append(heard, answer)
    /\ UNCHANGED parked

PairResume ==
    /\ ResumePrimary \/ ResumeSecondary \/ SaveReturns
    /\ stamp' \in {NoStamp, PairStamp}

\* The event loop runs the handler of the other request, the conditions
\* being held in a variable of the module that the invocations share.
Switch_SharedConditions ==
    /\ parked' = Context
    /\ pc' = parked.pc
    /\ req' = parked.req
    /\ surfData' = surfData
    /\ genCalls' = parked.genCalls
    /\ genPending' = parked.genPending
    /\ genResult' = parked.genResult
    /\ primary' = parked.primary
    /\ report' = parked.report
    /\ response' = parked.response
    /\ save' = parked.save
    /\ fetched' = parked.fetched
    /\ stamp' = parked.stamp
    /\ heard' = parked.heard
    /\ UNCHANGED <<variant, env, prevId, hour, prompt>>

\* The event loop runs the handler of the other request: each invocation
\* keeps its own locals and its own outstanding calls.
Switch ==
    /\ parked' = Context
    /\ pc' = parked.pc
    /\ req' = parked.req
    /\ surfData' = parked.surfData
    /\ genCalls' = parked.genCalls
    /\ genPending' = parked.genPending
    /\ genResult' = parked.genResult
    /\ primary' = parked.primary
    /\ report' = parked.report
    /\ response' = parked.response
    /\ save' = parked.save
    /\ fetched' = parked.fetched
    /\ stamp' = parked.stamp
    /\ heard' = parked.heard
    /\ UNCHANGED <<variant, env, prevId, hour, prompt>>

PairNext ==
    \/ PairReceive
    \/ PairFetchReturns
    \/ PairGeneratorResponds
    \/ PairResume
    \/ Switch

PairSpec == PairInit /\ [][PairNext]_vars

\* The response of a request whose handler runs alone: the handler's steps
\* composed, each outbound call answered by the next entry of answers.
SoloResponse(v, e, r, answers) ==
    LET start == IF r.endpoint = "generate" THEN HandleGenerate(v, e, r.body)
                 ELSE HandleCron(v, e, r.body)
        fetches == start.pc = "fetch"
        conditions ==
            IF fetches
            THEN IF answers[1] = FetchRejects THEN Undef ELSE answers[1].json
            ELSE r.body.surfData
        generated == IF fetches THEN Tail(answers) ELSE answers
        afterFetch == IF fetches THEN AfterFetch(v, answers[1]) ELSE start
        afterPrimary ==
            IF afterFetch.pc = "gen1"
            THEN AfterPrimary(v, r.endpoint, conditions, generated[1])
            ELSE afterFetch
        afterSecondary ==
            IF afterPrimary.pc = "gen2"
            THEN TestPortAfterSecondary(r.endpoint, conditions,
                                        afterPrimary.primary, generated[2])
            ELSE afterPrimary
        afterSave ==
            IF afterSecondary.pc = "save"
            THEN IndexAfterSave(afterSecondary.primary, afterSecondary.report)
            ELSE afterSecondary
    IN afterSave.response


(***************************************************************************)
(* The prompts of successive requests.                                     *)
(***************************************************************************)
\* Conditions with the two directions set.
WithDirections(sd, swell, wind) ==
    [sd EXCEPT !.details.swell_direction_deg = Num(swell),
               !.details.wind_direction_deg = Num(wind)]

BaseSurfData == SurfData(BaseDetails, BaseWeather, Num(72))

\* Directions on both sides of the sector boundaries, and the same
\* directions a full turn further.
PromptDegrees ==
    LET firstTurn == {0, 11, 12, 30, 44, 45, 90, 134, 135, 180, 224, 225, 270,
                      314, 315, 348, 349, 360}
    IN firstTurn \cup {d + 360 : d \in firstTurn}

\* Wave periods and wind speeds on both sides of every band boundary.
PromptPeriods == 5..13
PromptWindKts == 0..16

\* The conditions of the requests: in range, one field varied at a time.
PromptConditions ==
    {WithDirections(BaseSurfData, d, d) : d \in PromptDegrees}
    \cup {SurfData(Details(Num(35), Num(p), Num(8), Str("Rising"), Str("NE")),
                   BaseWeather, Num(72)) : p \in PromptPeriods}
    \cup {SurfData(Details(Num(35), Num(9), Num(k), Str("Rising"), Str("NE")),
                   BaseWeather, Num(72)) : k \in PromptWindKts}
    \cup {SurfData(BaseDetails, BaseWeather, Num(s)) : s \in {44, 45, 64, 65, 79, 80}}

\* Hours on both sides of noon and of 5 pm.
Hours == {0, 11, 12, 16, 17, 23}

\* The prompt the variant builds for a request.
BuildPrompt(v, sd, h) ==
    IF v = "index" THEN createDetailedSurfPrompt(sd) ELSE createDetailedPrompt(sd, h)

PromptInit ==
    /\ variant \in {"index", "testport"}
    /\ env = [API_SECRET |-> Secret, CRON_SECRET |-> Secret]
    /\ pc = "idle"
    /\ req = NoRequest
    /\ surfData = Undef
    /\ genCalls = 0
    /\ genPending = 0
    /\ genResult = NoResult
    /\ primary = "none"
    /\ report = NoReport
    /\ response = NoResponse
    /\ save = "none"
    /\ fetched = "none"
    /\ stamp = NoStamp
    /\ prevId = NoId
    /\ heard = <<>>
    /\ parked = NoContext
    /\ hour \in Hours
    /\ prompt = NoPrompt

\* A request arrives with conditions and the handler builds the prompt.
PromptBuilt ==
    /\ \E sd \in PromptConditions :
          /\ surfData' = sd
          /\ prompt' = BuildPrompt(variant, sd, hour)
    /\ UNCHANGED <<variant, env, pc, req, genCalls, genPending, genResult, primary,
                   report, response, save, fetched, stamp, prevId, heard, parked,
                   hour>>

\* Time passes between two requests.
ClockAdvances ==
    /\ hour' \in Hours \ {hour}
    /\ UNCHANGED <<variant, env, pc, req, surfData, genCalls, genPending, genResult,
                   primary, report, response, save, fetched, stamp, prevId, heard,
                   parked, prompt>>

PromptNext ==
    \/ PromptBuilt
    \/ ClockAdvances

PromptSpec == PromptInit /\ [][PromptNext]_vars

\* Two successive requests each had a prompt built.
TwoPrompts == prompt # NoPrompt /\ prompt' # NoPrompt

\* C22: the prompt is a function of the conditions alone: two requests
\* with equal conditions get the same prompt, whatever the wall clock
\* shows when each arrives (index.ts and test-port.ts).
C22_PromptIgnoresClock ==
    [][(TwoPrompts /\ surfData' = surfData) => prompt' = prompt]_vars

\* The conditions of the second request are those of the first with both
\* directions a full turn further.
FullTurnLater ==
    surfData' = WithDirections(surfData,
                               surfData.details.swell_direction_deg.n + 360,
                               surfData.details.wind_direction_deg.n + 360)

\* C23: every direction label function is invariant under its input
\* modulo 360: the labels of d + 360 degrees are the labels of d degrees
\* (getSwellDirectionText and getWindDirectionText in the prompt of
\* index.ts, getSwellDirection and getWindDirection in that of test-port.ts).
C23_LabelsModulo360 ==
    [][(TwoPrompts /\ FullTurnLater)
         => /\ prompt'.slots.swellDirection = prompt.slots.swellDirection
            /\ prompt'.slots.windDirection = prompt.slots.windDirection]_vars

\* C24: in the prompt of index.ts the label of the swell direction and the
\* label of the wind direction are both the nearest of 16 sectors of 22.5
\* degrees: for 0 <= deg <= 360, entry round(deg / 22.5) mod 16 of the list
\* of 16 labels that starts at North.
C24_SixteenSectorLabels ==
    (variant = "index" /\ prompt # NoPrompt)
    => LET swell == surfData.details.swell_direction_deg.n
           wind == surfData.details.wind_direction_deg.n
           nearest(deg) == directions[(RoundSectors(deg) % 16) + 1]
       IN /\ swell \in 0..360 => prompt.slots.swellDirection = nearest(swell)
          /\ wind \in 0..360 => prompt.slots.windDirection = nearest(wind)

\* C25: the swell-quality label of the prompt is selected by the band of
\* the wave period, the bands being p >= 12, 10 <= p < 12, 7 <= p < 10 and
\* p < 7, with four distinct labels, one per band: two prompts of
\* test-port.ts carry the same label exactly when their periods are in the
\* same band.
C25_SwellQualityBands ==
    [][(TwoPrompts /\ variant = "testport")
         => LET band(p) == IF p >= 12 THEN 4 ELSE IF p >= 10 THEN 3
                           ELSE IF p >= 7 THEN 2 ELSE 1
            IN (prompt'.slots.periodLabel = prompt.slots.periodLabel)
               <=> (band(surfData'.details.wave_period_sec.n)
                      = band(surfData.details.wave_period_sec.n))]_vars

\* C26: the wind-effect label of the prompt is chosen from the wind speed
\* in mph, round(knots * 1.15078), by the bands below 5, 5 to below 10,
\* 10 to below 15, and 15 and above: two prompts of test-port.ts carry the
\* same label exactly when their wind speeds are in the same band.
C26_WindEffectBands ==
    [][(TwoPrompts /\ variant = "testport")
         => LET band(mph) == IF mph < 5 THEN 1 ELSE IF mph < 10 THEN 2
                             ELSE IF mph < 15 THEN 3 ELSE 4
            IN (prompt'.slots.windEffect = prompt.slots.windEffect)
               <=> (band(KnotsToMph(surfData'.details.wind_speed_kts).n)
                      = band(KnotsToMph(surfData.details.wind_speed_kts).n))]_vars

(***************************************************************************)
(* Properties.                                                             *)
(***************************************************************************)
\* The catch block of generateDetailedSurfReport has been entered.
IndexFallbackEntered == variant = "index" /\ primary \in {"failed", "threw"}

\* C1: in index.ts, for conditions inside the SurfConditions ranges, a
\* failed generateObject call ends the /generate-surf-report request with a
\* 200 success:true response that carries the report of the deterministic
\* fallback (backend 'bun-enhanced-fallback'); the failure never reaches
\* the caller.
C1_GeneratorFailureAbsorbed ==
    (/\ variant = "index"
     /\ req.endpoint = "generate"
     /\ primary = "failed"
     /\ InRange(surfData))
    => /\ pc = "done"
       /\ response.status = 200
       /\ response.body.success = TRUE
       /\ response.body.report = report
       /\ report.generation_meta.backend = "bun-enhanced-fallback"
       /\ report.id = "surf_fallback_enhanced_"

C1_Witness ==
    /\ variant = "index"
    /\ req.endpoint = "generate"
    /\ primary = "failed"
    /\ InRange(surfData)
    /\ pc = "done"
    /\ response.status = 200

\* C5: the fallback path of index.ts never fails: for conditions inside
\* their ranges createEnhancedFallbackReport raises no error and the catch
\* block of generateDetailedSurfReport returns the fallback report, on the
\* generate and on the cron endpoint, whatever made the primary path fail.
C5_FallbackNeverFails ==
    (IndexFallbackEntered /\ InRange(surfData))
    => /\ ~IsThrow(createEnhancedFallbackReport(
                      surfData, KnotsToMph(surfData.details.wind_speed_kts)))
       /\ ~IsThrow(IndexFallbackReport(surfData))
       /\ report = IndexFallbackReport(surfData)

C5_Witness ==
    /\ IndexFallbackEntered
    /\ InRange(surfData)
    /\ req.endpoint = "cron"
    /\ primary = "threw"
    /\ ~Truthy(surfData.details.swell_direction_compass)
    /\ report.generation_meta.backend = "bun-enhanced-fallback"


\* The handler resumes with the answer of the generator call it awaits.
Resumes(v, endpoint, at) ==
    /\ variant = v
    /\ req.endpoint = endpoint
    /\ pc = at
    /\ genResult # NoResult
    /\ pc' # pc

C3_PrimarySuccess ==
    (/\ variant = "testport"
     /\ primary = "accepted"
     /\ pc = "done")
    => /\ genCalls = 1
       /\ response.status = 200
       /\ response.body.success = TRUE

\* C4: in the /generate-surf-report handler of index.ts, whenever surfData
\* is missing or malformed the caller gets an error response and
\* generateObject is never called during the request.
C4_InputErrorsStopGeneration ==
    (/\ variant = "index"
     /\ req.endpoint = "generate"
     /\ req.body # BadJson
     /\ ~InRange(req.body.surfData))
    => /\ genCalls = 0
       /\ pc = "done"
       /\ response.status \in {400, 401, 500}

\* C6: per request the generator is called at most twice and never twice
\* at a time; a second call has been issued only if the first one was
\* rejected or returned a rejected candidate.
C6_AtMostTwoSequentialCalls ==
    /\ genCalls <= 2
    /\ genPending <= 1
    /\ genCalls = 2 => primary \in {"failed", "too_short", "no_board"}

C6_Witness ==
    /\ genCalls = 2
    /\ genPending = 1
    /\ primary = "too_short"

\* The candidate has a report text below the minimum length.
ShortReport(c) ==
    /\ c.t = "object"
    /\ IsString(c.report)
    /\ JsLength(c.report) < MinReportLength

C8_RejectedExactlyWhen ==
    [][(/\ \E e \in {"generate", "cron"} : Resumes("testport", e, "gen1")
        /\ genResult # GenFailure)
       => ((primary' # "accepted")
             <=> \/ ~IsString(genResult.report)
                 \/ JsLength(genResult.report) < MinReportLength
                 \/ ~Truthy(genResult.boardRecommendation))]_vars

\* C9: in test-port.ts every report built from a generator text has a text
\* of at least 150 characters, and a report built from the secondary
\* attempt has a board recommendation.
C9_GeneratedTextMeetsMinimum ==
    (variant = "testport" /\ report # NoReport)
    => /\ JsLength(report.report) >= MinReportLength
       /\ report.generation_meta.generation_method = "fallback"
             => Truthy(report.recommendations.board_type)

\* The board category a fallback text states: the category named by the
\* sentence that opens its second paragraph.
StatedBoardCategory(text) ==
    LET i == CHOOSE j \in 1..Len(text.tokens) : text.tokens[j] = "\n\n"
        sentence == text.tokens[i + 1]
    IN CASE sentence \in
              {"Grab your shortboard and head to Vilano Beach or the pier area where the waves should have some punch",
               "Grab your shortboard for better maneuverability in these bigger waves"}
              -> "shortboard"
         [] sentence = "A shortboard or funboard will work well for these conditions"
              -> "shortboard or funboard"
         [] sentence \in
              {"Perfect longboard day - try Vilano Beach or Crescent Beach for the mellow, rolling waves",
               "Perfect longboard conditions - the extra length will help you catch these smaller waves"}
              -> "longboard"
         [] OTHER -> "none"

\* C10: for every wave height h >= 0 the board category stated in the
\* fallback report text of index.ts is 'longboard' when h < 2.5,
\* 'shortboard or funboard' when 2.5 <= h < 4, 'shortboard' when h >= 4.
C10_BoardCategoryBands ==
    (IndexFallbackEntered /\ InRange(surfData) /\ report # NoReport)
    => StatedBoardCategory(report.report) =
          (LET h == surfData.details.wave_height_ft.n
           IN IF h < FunboardWaveMin THEN "longboard"
              ELSE IF h < SolidWaveMin THEN "shortboard or funboard"
              ELSE "shortboard")


\* A report built by the catch block of generateDetailedSurfReport from
\* conditions inside the SurfConditions ranges.
IndexFallbackBuilt ==
    IndexFallbackEntered /\ InRange(surfData) /\ report # NoReport

\* Where the blank line that separates the paragraphs stands in a text.
ParagraphBreaks(text) ==
    {i \in DOMAIN text.tokens : text.tokens[i] = "\n\n"}

\* C11: the index.ts fallback text is two paragraphs separated by one
\* blank line, and it ends with the sentence of its score bucket: the
\* encouraging one for score >= 70, the 'fair' one for 50 <= score < 70,
\* the 'poor' one below 50.
C11_TwoParagraphsAndClosing ==
    IndexFallbackBuilt
    => LET toks == report.report.tokens
           score == surfData.score.n
       IN /\ Cardinality(ParagraphBreaks(report.report)) = 1
          /\ \A i \in DOMAIN toks : toks[i] \notin {"\n", "\n\n\n"}
          /\ \A i \in ParagraphBreaks(report.report) : 1 < i /\ i < Len(toks)
          /\ toks[Len(toks)] =
                IF score >= 70 THEN "Definitely worth the paddle out today!"
                ELSE IF score >= 50 THEN "Surfable conditions if you need your wave fix."
                ELSE "Might be better for beach walks, but conditions can change quickly."

C11_Witness ==
    /\ IndexFallbackBuilt
    /\ surfData.score.n = 69
    /\ report.report.tokens[Len(report.report.tokens)] =
          "Surfable conditions if you need your wave fix."

\* The wetsuit sentence of a fallback text: the second sentence of its
\* second paragraph.
WetsuitSentence(text) ==
    LET i == CHOOSE j \in ParagraphBreaks(text) : TRUE
    IN text.tokens[i + 3]

\* C12: the index.ts fallback recommends a wetsuit, in the text and in
\* recommendations.wetsuit_thickness, when the water is below 65 F, and a
\* spring suit or boardshorts from 65 F on.
C12_WetsuitGuidance ==
    IndexFallbackBuilt
    => IF surfData.weather.water_temperature_f.n < 65
       THEN /\ WetsuitSentence(report.report) =
                  "You'll want a 3/2mm wetsuit for that chilly water"
            /\ report.recommendations.wetsuit_thickness = Str("3/2mm")
       ELSE /\ WetsuitSentence(report.report) =
                  "Spring suit or boardshorts should be perfect for the comfortable water temps"
            /\ report.recommendations.wetsuit_thickness = Str("Spring suit")

C12_Witness ==
    /\ IndexFallbackBuilt
    /\ surfData.weather.water_temperature_f.n = 65
    /\ report.recommendations.wetsuit_thickness = Str("Spring suit")


\* C13: in every report built, on the primary and on the fallback path,
\* recommendations.best_spots is a non-empty list and
\* recommendations.timing_advice is a non-empty string.
C13_SpotsAndTimingDefaulted ==
    report # NoReport
    => /\ report.recommendations.best_spots.t = "array"
       /\ Len(report.recommendations.best_spots.items) > 0
       /\ IsString(report.recommendations.timing_advice)
       /\ Truthy(report.recommendations.timing_advice)


\* C14: in every report built, cached_until is the report's own timestamp
\* plus exactly the validity window of 4 hours, however the clock advances
\* between the readings that produce id, timestamp and cached_until.
C14_CachedUntilIsTimestampPlusWindow ==
    report # NoReport
    => stamp.cached_until = stamp.timestamp + 4 * 60 * 60 * 1000

\* C15: the id of a report differs from the id of the report built before
\* it, also when both read the same millisecond of the clock.
C15_IdsUnique ==
    (report # NoReport /\ prevId # NoId)
    => ReportId(report, stamp) # prevId


\* The text of the report is the one the primary generator call returned.
TextFromPrimary(rep) ==
    "gen" \in DOMAIN rep.report /\ rep.report.gen = 1

\* C16: in index.ts and in handleCronGeneration of test-port.ts the id of
\* a report carries the fallback prefix exactly when its text was not
\* produced by the primary generation, and the path marker of
\* generation_meta (backend, generation_method) agrees with the prefix.
C16_ProvenanceConsistent ==
    (variant \in {"index", "testport"} /\ report # NoReport)
    => LET fallbackPrefix == report.id = "surf_fallback_enhanced_"
           fallbackMarker ==
              IF variant = "index"
              THEN report.generation_meta.backend = "bun-enhanced-fallback"
              ELSE report.generation_meta.generation_method = "fallback"
       IN /\ fallbackPrefix <=> ~TextFromPrimary(report)
          /\ fallbackMarker <=> fallbackPrefix


\* Every SurfConditions field of the input is in the conditions block of
\* the report with its value.
ConditionsCopied(rep, sd) ==
    LET c == rep.conditions
    IN /\ \A f \in {"wave_height_ft", "wave_period_sec", "swell_direction_deg",
                    "wind_speed_kts", "wind_direction_deg", "tide_state",
                    "tide_height_ft"} :
             f \in DOMAIN c /\ c[f] = sd.details[f]
       /\ \A f \in {"air_temperature_f", "water_temperature_f",
                    "weather_description"} :
             f \in DOMAIN c /\ c[f] = sd.weather[f]
       /\ c.surfability_score = sd.score

C18_SaveFailureIgnored ==
    (req.endpoint = "cron" /\ save \in {"ok", "failed"})
    => /\ pc = "done"
       /\ response.status = 200
       /\ response.body.success = TRUE
       /\ response.body.actions.new_report_id = report.id

C18_Witness ==
    /\ variant = "index"
    /\ req.endpoint = "cron"
    /\ save = "failed"
    /\ pc = "done"
    /\ response.status = 200
    /\ response.body.actions.new_report_id = report.id

\* C19: in every cron handler, when the fetch of the conditions fails (it
\* rejects, or answers with a status that is not OK), the response is an
\* error with success:false and neither the generator nor the save call
\* is invoked.
C19_FetchFailureFailsCron ==
    (req.endpoint = "cron" /\ fetched \in {"rejected", "not_ok"})
    => /\ pc = "done"
       /\ response.status >= 400
       /\ response.body.success = FALSE
       /\ genCalls = 0
       /\ save = "none"

\* C20: the cron handler does not wait for the save call: whenever the
\* save call is outstanding the response has been produced already.
C20_SaveDoesNotBlockResponse ==
    (req.endpoint = "cron" /\ save = "pending")
    => response # NoResponse



\* The handler of the request of context c has answered.
Answered(c) == c.pc = "done" /\ c.req # NoRequest

\* C21: requests are independent.  With two requests in flight, interleaved
\* at their awaits, a handler that runs leaves the suspended invocation as
\* it was, and the response of each request is the response the same
\* request produces when its handler runs alone and hears the same answers
\* from the conditions service and the generator.
C21_Independent ==
    /\ parked # NoContext /\ Answered(Context)
          => response = SoloResponse(variant, env, req, heard)
    /\ parked # NoContext /\ Answered(parked)
          => parked.response = SoloResponse(variant, env, parked.req, parked.heard)

Credential == IF req.endpoint = "generate" THEN req.body.apiKey ELSE req.body.cronSecret
ExpectedSecret == IF req.endpoint = "generate" THEN env.API_SECRET ELSE env.CRON_SECRET

\* The request was answered 401 without any outbound call.
Refused ==
    /\ pc = "done"
    /\ response = Unauthorized
    /\ genCalls = 0
    /\ fetched = "none"
    /\ save = "none"

\* C27: in every variant a request whose apiKey differs from API_SECRET
\* (generate) or whose cronSecret differs from CRON_SECRET (cron) is
\* answered 401 with no generator call, no conditions fetch and no save
\* call; the secret is checked before the conditions are looked at, so a
\* wrong key with missing surfData is answered 401 and not 400.
C27_WrongSecretRefused ==
    (req # NoRequest /\ req.body # BadJson /\ Credential # ExpectedSecret) => Refused

\* A wrong key came with a body that has no surfData.
C27_Witness ==
    /\ req.endpoint = "generate"
    /\ req.body # BadJson
    /\ env.API_SECRET = Secret
    /\ req.body.apiKey = Str("wrong")
    /\ req.body.surfData = Undef
    /\ response.status = 401

\* C28: a request that presents no credential is never processed: a body
\* without apiKey (generate) or without cronSecret (cron) is answered 401
\* and triggers no generator call and no outbound call, whether or not
\* API_SECRET and CRON_SECRET are set.
C28_NoCredentialRefused ==
    (req # NoRequest /\ req.body # BadJson /\ Credential = Undef) => Refused

\* The board categories a stated category or a board_type value names.
BoardsNamed(s) ==
    CASE s \in {"shortboard", "Shortboard recommended"} -> {"shortboard"}
      [] s \in {"shortboard or funboard", "Shortboard or funboard"}
           -> {"shortboard", "funboard"}
      [] s \in {"longboard", "Longboard recommended"} -> {"longboard"}
      [] OTHER -> {}

\* C29: in every fallback report of index.ts the board category named in
\* the report text agrees with recommendations.board_type, for every wave
\* height: the two never recommend different board categories (here: the
\* text and the field name at least one category in common).
C29_TextAndBoardTypeAgree ==
    (IndexFallbackEntered /\ report # NoReport /\ InRange(surfData))
    => BoardsNamed(StatedBoardCategory(report.report))
          \cap BoardsNamed(report.recommendations.board_type.s) # {}

\* C30: in every variant a cron response with success: true is sent only
\* after a report has been assembled in that request, from generator
\* output or from the fallback, and a save request carrying it has been
\* issued: success is never reported for a run that produced no report.
C30_CronSuccessAfterReportAndSave ==
    (req.endpoint = "cron" /\ response # NoResponse /\ response.status = 200
       /\ response.body.success = TRUE)
    => report # NoReport /\ save # "none"
====
